---- MODULE Spec2Model ----
(***************************************************************************)
(* Model of the unified generation facade of src/ai_helper.py:             *)
(* generate_response and the four stream_*_response adapters, seen as one  *)
(* lazy stream of fragments that a consumer pulls until it ends.           *)
(***************************************************************************)
EXTENDS Integers, Sequences, FiniteSets, TLC

\* ------------------------------------------------------------------ bounds
MaxTurns == 2
MaxLines == 2
MaxModels == 3
MaxHistory == 3
MaxStore == 2
MaxLog == 2

\* ------------------------------------------------------------ value spaces
\* Python's None for an optional text argument.
None == "<None>"

Roles == {"system", "user", "assistant"}
Turn == [role : Roles, content : {"hi"}]

RECURSIVE SeqsUpTo(_, _)
SeqsUpTo(S, n) ==
    IF n = 0 THEN {<<>>}
    ELSE LET shorter == SeqsUpTo(S, n - 1)
         IN  shorter \cup {Append(s, x) : s \in {t \in shorter : Len(t) = n - 1}, x \in S}

TurnLists == SeqsUpTo(Turn, MaxTurns)
Backends == {"ollama", "claude", "chatgpt", "grok", "gemini"}
ApiKeys == {None, "", "sk-1"}
SystemPrompts == {None, "", "Be brief."}

\* Truthiness with the empty text taken for a value (`x is not None`).
Truthy_bug(x) == x # None

\* Python truthiness of an optional text value (`if x:` / `not x` / `x or d`).
Truthy(x) == x # None /\ x # ""

\* ---------------------------------------------------------------- fragments
\* A yielded value.  kind tells a content delta from an error sentence; t is
\* the Python type of the value ("str", "null" for None), s its text, code the
\* status code formatted into the text (0 when there is none).
TextFrag(t, s) == [kind |-> "text", t |-> t, s |-> s, code |-> 0]
ErrFrag(s, code) == [kind |-> "error", t |-> "str", s |-> s, code |-> code]

\* -------------------------------------------------------- message building
HasSystem(msgs) == \E i \in 1..Len(msgs) : msgs[i].role = "system"
NonSystem(msgs) == SelectSeq(msgs, LAMBDA m : m.role # "system")
SystemTurn(sp) == [role |-> "system", content |-> sp]

\* The system turn put after the input turns instead of before them.
ollama_messages_bug(msgs, sp) ==
    IF Truthy(sp) /\ ~HasSystem(msgs) THEN msgs \o <<SystemTurn(sp)>> ELSE msgs

\* Last writer wins: the prompt argument replaces the system turns of the input.
ollama_messages_last(msgs, sp) ==
    IF Truthy(sp) THEN <<SystemTurn(sp)>> \o NonSystem(msgs) ELSE msgs

\* The `has_system` test left out: the prompt is prepended whenever it is given.
ollama_messages_always(msgs, sp) ==
    IF Truthy(sp) THEN <<SystemTurn(sp)>> \o msgs ELSE msgs

\* stream_ollama_response: prepend only when a prompt is given and no system
\* turn exists; otherwise the list is sent as received.
ollama_messages(msgs, sp) ==
    IF Truthy(sp) /\ ~HasSystem(msgs) THEN <<SystemTurn(sp)>> \o msgs ELSE msgs

\* stream_claude_response: system turns are dropped, the prompt travels in the
\* separate `system` field.
claude_messages(msgs, sp) == NonSystem(msgs)
claude_system(sp) == IF Truthy(sp) THEN sp ELSE "You are a helpful assistant."

\* stream_chatgpt_response / stream_grok_response: system turns are dropped and
\* one system turn is put first when a prompt is given.
\* The prompt not resent at all once the system turns are taken out.
chatgpt_messages_bug(msgs, sp) == NonSystem(msgs)

chatgpt_messages(msgs, sp) ==
    (IF Truthy(sp) THEN <<SystemTurn(sp)>> ELSE <<>>) \o NonSystem(msgs)
\* The loop's `role != "system"` filter left out.
grok_messages_bug(msgs, sp) ==
    (IF Truthy(sp) THEN <<SystemTurn(sp)>> ELSE <<>>) \o msgs

grok_messages(msgs, sp) ==
    (IF Truthy(sp) THEN <<SystemTurn(sp)>> ELSE <<>>) \o NonSystem(msgs)

adapter_messages(b, msgs, sp) ==
    CASE b = "ollama" -> ollama_messages(msgs, sp)
      [] b = "claude" -> claude_messages(msgs, sp)
      [] b = "chatgpt" -> chatgpt_messages(msgs, sp)
      [] OTHER -> grok_messages(msgs, sp)

\* The prompt as a request field of its own: only the Claude adapter has one.
adapter_system(b, sp) == IF b = "claude" THEN claude_system(sp) ELSE None

\* ------------------------------------------------------------ exceptions
\* The exception classes that occur, with their direct base class.
Base(exc) ==
    CASE exc = "JSONDecodeError" -> "ValueError"
      [] exc = "UnicodeDecodeError" -> "ValueError"
      [] exc = "Timeout" -> "RequestException"
      [] exc = "ConnectionError" -> "RequestException"
      [] exc = "ChunkedEncodingError" -> "RequestException"
      [] exc = "RequestException" -> "OSError"
      [] exc = "ImportError" -> "Exception"
      [] exc = "APIError" -> "Exception"
      [] exc = "ValueError" -> "Exception"
      [] exc = "KeyError" -> "LookupError"
      [] exc = "IndexError" -> "LookupError"
      [] exc = "LookupError" -> "Exception"
      [] exc = "TypeError" -> "Exception"
      [] exc = "AttributeError" -> "Exception"
      [] exc = "OSError" -> "Exception"
      [] OTHER -> "BaseException"

RECURSIVE IsInstance(_, _)
IsInstance(exc, cls) ==
    IF exc = cls THEN TRUE
    ELSE IF exc = "BaseException" THEN FALSE
    ELSE IsInstance(Base(exc), cls)

\* ------------------------------------------------------------ body lines
\* One line of a streamed body (or one SDK chunk).  enc: the bytes are empty,
\* not UTF-8, or text; prefix: the text starts with "data: "; top: what the
\* JSON payload parses to; message / choices / first / delta: the type of the
\* value found at that place ("absent" when the key is missing); ct, cs: type
\* and text of the content value.
Line(enc, prefix, top, message, choices, first, delta, ct, cs) ==
    [enc |-> enc, prefix |-> prefix, top |-> top, message |-> message,
     choices |-> choices, first |-> first, delta |-> delta, ct |-> ct, cs |-> cs]

OContent(ct, cs) == Line("utf8", FALSE, "obj", "obj", "absent", "none", "absent", ct, cs)
GContent(ct, cs) == Line("utf8", TRUE, "obj", "absent", "list", "obj", "obj", ct, cs)
SdkChunk(choices, ct, cs) == Line("utf8", FALSE, "obj", "absent", choices, "obj", "obj", ct, cs)

OllamaLines ==
    { Line("empty", FALSE, "notjson", "absent", "absent", "none", "absent", "absent", ""),
      Line("utf8", FALSE, "notjson", "absent", "absent", "none", "absent", "absent", ""),
      Line("badutf8", FALSE, "notjson", "absent", "absent", "none", "absent", "absent", ""),
      Line("utf8", FALSE, "num", "absent", "absent", "none", "absent", "absent", ""),
      Line("utf8", FALSE, "obj", "absent", "absent", "none", "absent", "absent", ""),
      Line("utf8", FALSE, "obj", "null", "absent", "none", "absent", "absent", ""),
      OContent("str", "a"), OContent("str", "b"), OContent("str", ""), OContent("null", "") }

GrokLines ==
    { Line("empty", FALSE, "notjson", "absent", "absent", "none", "absent", "absent", ""),
      Line("utf8", FALSE, "obj", "absent", "list", "obj", "obj", "str", "a"),
      Line("utf8", TRUE, "notjson", "absent", "absent", "none", "absent", "absent", ""),
      Line("badutf8", TRUE, "notjson", "absent", "absent", "none", "absent", "absent", ""),
      Line("utf8", TRUE, "num", "absent", "absent", "none", "absent", "absent", ""),
      Line("utf8", TRUE, "obj", "absent", "empty", "none", "absent", "absent", ""),
      Line("utf8", TRUE, "obj", "absent", "list", "num", "absent", "absent", ""),
      Line("utf8", TRUE, "obj", "absent", "list", "obj", "null", "absent", ""),
      Line("utf8", TRUE, "obj", "absent", "list", "obj", "obj", "absent", ""),
      GContent("str", "a"), GContent("str", ""), GContent("null", "") }

ChatgptChunks ==
    { SdkChunk("empty", "absent", ""), SdkChunk("list", "null", ""),
      SdkChunk("list", "str", ""), SdkChunk("list", "str", "a"), SdkChunk("list", "str", "b") }

ClaudeDeltas == { SdkChunk("list", "str", "a"), SdkChunk("list", "str", "b") }

Lines(a) ==
    CASE a = "ollama" -> OllamaLines
      [] a = "grok" -> GrokLines
      [] a = "chatgpt" -> ChatgptChunks
      [] OTHER -> ClaudeDeltas

\* Outcome of handling one line: yield a value, go on without yielding, or
\* raise.
Yield(t, s) == [act |-> "yield", exc |-> "", t |-> t, s |-> s]
Skip == [act |-> "skip", exc |-> "", t |-> "", s |-> ""]
Raise(exc) == [act |-> "raise", exc |-> exc, t |-> "", s |-> ""]

\* `key in v` for a parsed JSON value of type ty: None and numbers are not
\* containers; the representative array and string do not hold the key.
PyIn(ty, onObject) ==
    CASE ty \in {"num", "null"} -> Raise("TypeError")
      [] ty \in {"arr", "str"} -> Skip
      [] OTHER -> onObject

\* json.loads(line) of the raw bytes (stream_ollama_response).
json_loads(l, onValue) ==
    IF l.enc = "badutf8" THEN Raise("UnicodeDecodeError")
    ELSE IF l.prefix \/ l.top = "notjson" THEN Raise("JSONDecodeError")
    ELSE onValue

\* The content test written as in the ChatGPT adapter (`if content:`), which
\* drops chunks whose content is empty.
ollama_try_bug(l) ==
    json_loads(l,
        PyIn(l.top,
            IF l.message = "absent" THEN Skip
            ELSE PyIn(l.message,
                     IF l.ct = "str" /\ l.cs # "" THEN Yield(l.ct, l.cs) ELSE Skip)))

\* Body of the try block of the line loop in stream_ollama_response.
ollama_try(l) ==
    json_loads(l,
        PyIn(l.top,
            IF l.message = "absent" THEN Skip
            ELSE PyIn(l.message,
                     IF l.ct = "absent" THEN Skip ELSE Yield(l.ct, l.cs))))

\* except (json.JSONDecodeError, KeyError): continue
ollama_inner_catches(exc) ==
    IsInstance(exc, "JSONDecodeError") \/ IsInstance(exc, "KeyError")

ollama_line(l) ==
    IF l.enc = "empty" THEN Skip
    ELSE LET r == ollama_try(l)
         IN  IF r.act = "raise" /\ ollama_inner_catches(r.exc) THEN Skip ELSE r

\* Body of the try block of the line loop in stream_grok_response:
\* json.loads(line[6:].decode()), then choices[0].get("delta", {}).
grok_try(l) ==
    IF l.enc = "badutf8" THEN Raise("UnicodeDecodeError")
    ELSE IF l.top = "notjson" THEN Raise("JSONDecodeError")
    ELSE PyIn(l.top,
            IF l.choices \in {"absent", "null", "empty"} THEN Skip
            ELSE IF l.choices = "num" THEN Raise("TypeError")
            ELSE IF l.first # "obj" THEN Raise("AttributeError")
            ELSE IF l.delta = "absent" THEN Skip
            ELSE PyIn(l.delta,
                     IF l.ct = "absent" THEN Skip ELSE Yield(l.ct, l.cs)))

\* except (json.JSONDecodeError, KeyError, ValueError): continue
grok_inner_catches(exc) ==
    \/ IsInstance(exc, "JSONDecodeError")
    \/ IsInstance(exc, "KeyError")
    \/ IsInstance(exc, "ValueError")

grok_line(l) ==
    IF l.enc = "empty" \/ ~l.prefix THEN Skip
    ELSE LET r == grok_try(l)
         IN  IF r.act = "raise" /\ grok_inner_catches(r.exc) THEN Skip ELSE r

\* for chunk in stream: if chunk.choices[0].delta.content: yield it
chatgpt_chunk(l) ==
    IF l.choices = "empty" THEN Raise("IndexError")
    ELSE IF l.ct = "str" /\ l.cs # "" THEN Yield(l.ct, l.cs)
    ELSE Skip

\* for text in stream.text_stream: yield text
claude_delta(l) == Yield(l.ct, l.cs)

adapter_line(a, l) ==
    CASE a = "ollama" -> ollama_line(l)
      [] a = "grok" -> grok_line(l)
      [] a = "chatgpt" -> chatgpt_chunk(l)
      [] OTHER -> claude_delta(l)

\* ------------------------------------------------------- error sentences
CloudBackends == {"claude", "chatgpt", "grok"}
HttpAdapters == {"ollama", "grok"}
\* The last branch of the dispatch written as a bare `else`.
Adapters_bug == Backends

Adapters == {"ollama", "claude", "chatgpt", "grok"}

missing_key_message(b) ==
    CASE b = "claude" -> "Error: Claude API key not provided."
      [] b = "chatgpt" -> "Error: ChatGPT API key not provided."
      [] OTHER -> "Error: Grok API key not provided."

unknown_backend_message ==
    "Error: Unknown backend. Use 'ollama', 'claude', 'chatgpt', or 'grok'."

\* The status branch with the sentence of pull_ollama_model, which leaves the
\* code out.
status_fragment_bug(a, code) == ErrFrag("Error: Could not pull model ", 0)

\* The fragment of the `status_code != 200` branch; the code is formatted in.
status_fragment(a, code) ==
    IF a = "ollama" THEN ErrFrag("Error: Ollama returned status code ", code)
    ELSE ErrFrag("Error: xAI API returned status ", code)

\* The status branch without its `return`.
status_phase_bug(code) == "Streaming"

\* Where the generator stands after the status check: the non-200 branch
\* returns, a 200 goes on to the line loop.
status_phase(code) == IF code # 200 THEN "Failed" ELSE "Streaming"

\* Only the transport's own exceptions handled.
outer_catches_bug(a, exc) == IsInstance(exc, "RequestException")

\* The adapter's outermost handlers: `except Exception` is the last clause of
\* every adapter.
outer_catches(a, exc) == IsInstance(exc, "Exception")

outer_message(a, exc) ==
    CASE a = "ollama" /\ IsInstance(exc, "Timeout") -> "Error: Request to Ollama timed out."
      [] a = "ollama" /\ ~IsInstance(exc, "Timeout") /\ IsInstance(exc, "ConnectionError") ->
             "Error: Could not connect to Ollama at OLLAMA_HOST."
      [] a = "claude" /\ IsInstance(exc, "ImportError") ->
             "Error: anthropic library not installed. Install with: pip install anthropic"
      [] a = "chatgpt" /\ IsInstance(exc, "ImportError") ->
             "Error: openai library not installed. Install with: pip install openai"
      [] OTHER -> "Error: " \o exc

\* What can go wrong before the first chunk, and while the body is read.
ConnectExcs(a) ==
    IF a \in HttpAdapters THEN {"Timeout", "ConnectionError"} ELSE {"ImportError", "APIError"}
ReadExcs(a) ==
    IF a \in HttpAdapters THEN {"ChunkedEncodingError", "ConnectionError"} ELSE {"APIError"}
StatusCodes == {200, 404, 500}

\* -------------------------------------------------------------------- state
VARIABLES
    messages, backend, system_prompt, api_key,  \* arguments of generate_response
    phase,         \* Idle, Connecting, Streaming, Completed, Failed
    out,           \* the fragments yielded so far, in order
    invoked,       \* the stream_* adapter entered, "none" before
    netio,         \* a request has been put on the network
    api_messages,  \* the message list sent to the backend
    system_content,\* the prompt sent in a request field of its own, None if not
    status_code,   \* response.status_code, 0 before a response
    rcvd,          \* the body lines / chunks received so far
    raised,        \* an exception left the generator
    \* get_available_backends, backend_to_key, list_ollama_models
    claude_key, grok_key, openai_key,  \* the flags of the last resolver call
    probe,         \* what check_ollama_connection met in that call, "none" before
    backends,      \* the list that call returned
    prev_call,     \* flags, probe and result of the resolver call before it
    label,         \* the argument of the last backend_to_key call
    backend_key,   \* what it returned
    tags,          \* the answer to GET /api/tags met by list_ollama_models
    model_names,   \* the list it returned
    \* the chat page (chat.py render)
    chat_history,  \* st.session_state.chat_history
    current_assistant, \* the selected assistant record, NoAssistant for none
    pc,            \* where the page stands: "idle", "rerun", "answered", "error"
    \* the assistant store and the usage log (files shared by every session)
    store,         \* content of each assistants file, <<>> for a missing file
    usage_log,     \* the lines of usage.log, each by its action name
    username,      \* st.session_state username of each session
    page,          \* the module whose script each session runs
    mem,           \* the `assistants` list each session's run has loaded
    spc,           \* each session's run: "idle", "loaded"
    op,            \* the last store operation: kind, session, id
    \* pull_ollama_model and delete_ollama_model
    pull_phase,    \* Idle, Streaming, Completed, Failed, Raised
    pull_out,      \* the fragments the pull generator yielded so far
    pull_rcvd,     \* the body lines it received so far
    del_answer,    \* what DELETE /api/delete met, "none" before a call
    deleted        \* what delete_ollama_model returned ("True", "False"), None before

streamvars == <<messages, backend, system_prompt, api_key, phase, out, invoked, netio,
                api_messages, system_content, status_code, rcvd, raised>>
dirvars == <<claude_key, grok_key, openai_key, probe, backends, prev_call, label, backend_key,
             tags, model_names>>
chatvars == <<chat_history, current_assistant, pc>>

storevars == <<store, usage_log, username, page, mem, spc, op>>
opsvars == <<pull_phase, pull_out, pull_rcvd, del_answer, deleted>>

vars == <<streamvars, dirvars, chatvars, storevars, opsvars>>

args == <<messages, backend, system_prompt, api_key>>

Terminal == {"Completed", "Failed"}

\* A call of generate_response creates the generator; nothing runs yet.
Fresh ==
    /\ messages \in TurnLists
    /\ backend \in Backends
    /\ system_prompt \in SystemPrompts
    /\ api_key \in ApiKeys
    /\ phase = "Idle"
    /\ out = <<>>
    /\ invoked = "none"
    /\ netio = FALSE
    /\ api_messages = <<>>
    /\ system_content = None
    /\ status_code = 0
    /\ rcvd = <<>>
    /\ raised = FALSE

\* An assistant record as the chat page reads it: system_prompt and the
\* optional knowledge_base (None when the key is missing).
NoAssistant == [name |-> "Default (No Assistant)", system_prompt |-> None, knowledge_base |-> None]

\* ------------------------------------------- availability and directory
\* What the probe's GET /api/tags can meet: a status, or a transport failure.
ProbeOutcomes == {"200", "503", "Timeout", "ConnectionError"}

\* The probe answering from the outcome of an earlier call.
check_ollama_connection_cached(now, earlier) ==
    IF earlier # "none" THEN earlier = "200" ELSE now = "200"

\* check_ollama_connection: True for status 200, False for any other status
\* and for any exception.  `earlier` is the outcome the previous call met; the
\* function keeps nothing of it.
check_ollama_connection(now, earlier) == now = "200"

\* The list without the final fallback.
get_available_backends_nofallback(ck, gk, ok, up) ==
    (IF up THEN <<"Ollama (Local)">> ELSE <<>>)
    \o (IF ck THEN <<"Claude (Anthropic)">> ELSE <<>>)
    \o (IF ok THEN <<"ChatGPT (OpenAI)">> ELSE <<>>)
    \o (IF gk THEN <<"Grok (xAI)">> ELSE <<>>)

\* get_available_backends(claude_key, grok_key, openai_key), with the result
\* of its probe: the labels are appended in the order local, Claude, ChatGPT,
\* Grok, and an empty list falls back to the local label.
get_available_backends(ck, gk, ok, up) ==
    LET found == (IF up THEN <<"Ollama (Local)">> ELSE <<>>)
                 \o (IF ck THEN <<"Claude (Anthropic)">> ELSE <<>>)
                 \o (IF ok THEN <<"ChatGPT (OpenAI)">> ELSE <<>>)
                 \o (IF gk THEN <<"Grok (xAI)">> ELSE <<>>)
    IN  IF found = <<>> THEN <<"Ollama (Local)">> ELSE found

\* Labels handed to backend_to_key: the four of the table and other text.
Labels == {"Ollama (Local)", "Claude (Anthropic)", "ChatGPT (OpenAI)", "Grok (xAI)",
           "Gemini (Google)", "claude", ""}

\* mapping.get(backend) without the default.
backend_to_key_nodefault(l) ==
    CASE l = "Ollama (Local)" -> "ollama"
      [] l = "Claude (Anthropic)" -> "claude"
      [] l = "ChatGPT (OpenAI)" -> "chatgpt"
      [] l = "Grok (xAI)" -> "grok"
      [] OTHER -> None

\* backend_to_key: mapping.get(backend, "ollama").
backend_to_key(l) ==
    CASE l = "Ollama (Local)" -> "ollama"
      [] l = "Claude (Anthropic)" -> "claude"
      [] l = "ChatGPT (OpenAI)" -> "chatgpt"
      [] l = "Grok (xAI)" -> "grok"
      [] OTHER -> "ollama"

\* Model names, numbered in the order in which sorted() places their strings.
ModelNames == 1..2

\* An element of the "models" array: a dict with a "name", a plain string, or
\* anything else (a dict without "name", a number).
ModelEntries ==
    [kind : {"dict", "str"}, name : ModelNames] \cup {[kind |-> "other", name |-> 0]}

\* What GET /api/tags can answer: a transport exception, a status other than
\* 200, a body that is not JSON, JSON that is not an object, an object whose
\* "models" is null, or an object with a models array (an absent key is the
\* empty array, the default of data.get).
TagsAnswers ==
    {[exc |-> "ConnectionError", status |-> 0, body |-> "none", models |-> <<>>],
     [exc |-> "none", status |-> 500, body |-> "object", models |-> <<>>],
     [exc |-> "none", status |-> 200, body |-> "unparsable", models |-> <<>>],
     [exc |-> "none", status |-> 200, body |-> "array", models |-> <<>>],
     [exc |-> "none", status |-> 200, body |-> "object", models |-> None]}
    \cup [exc : {"none"}, status : {200}, body : {"object"},
          models : SeqsUpTo(ModelEntries, MaxModels)]

NoAnswer == [exc |-> "none", status |-> 0, body |-> "none", models |-> <<>>]

RECURSIVE insort(_, _)
insort(x, q) ==
    IF q = <<>> THEN <<x>>
    ELSE IF x <= Head(q) THEN <<x>> \o q
    ELSE <<Head(q)>> \o insort(x, Tail(q))

\* sorted(): ascending, equal elements all kept.
RECURSIVE sorted(_)
sorted(q) == IF q = <<>> THEN <<>> ELSE insort(Head(q), sorted(Tail(q)))

\* The loop over the models array: a dict with "name" gives its name, a string
\* gives itself, anything else is passed over.
RECURSIVE collect_names(_)
collect_names(ms) ==
    IF ms = <<>> THEN <<>>
    ELSE (IF Head(ms).kind \in {"dict", "str"} THEN <<Head(ms).name>> ELSE <<>>)
         \o collect_names(Tail(ms))

\* list_ollama_models (list_models of ollama_helper.py is the same code): any
\* exception, a status other than 200, response.json() failing, data.get on a
\* non-object and iterating null all end in the empty list.
list_ollama_models(t) ==
    IF t.exc # "none" THEN <<>>
    ELSE IF t.status # 200 THEN <<>>
    ELSE IF t.body # "object" THEN <<>>
    ELSE IF t.models = None THEN <<>>
    ELSE sorted(collect_names(t.models))

NoCall == [claude_key |-> FALSE, grok_key |-> FALSE, openai_key |-> FALSE,
           probe |-> "none", backends |-> <<>>]

\* The resolver and the model directory before any call.
DirIdle ==
    /\ claude_key = FALSE /\ grok_key = FALSE /\ openai_key = FALSE
    /\ probe = "none"
    /\ backends = <<>>
    /\ prev_call = NoCall
    /\ label = None
    /\ backend_key = None
    /\ tags = NoAnswer
    /\ model_names = <<>>

\* No chat page open.
ChatIdle ==
    /\ chat_history = <<>>
    /\ current_assistant = NoAssistant
    /\ pc = "idle"

\* ------------------------------------------------- the files and the sessions
Sessions == {1, 2}

\* What the profile tab can leave in the session: nothing, the empty text,
\* blanks, a lower-case and a mixed-case name.
Usernames == {None, "", "  ", "bob", "Bob"}

\* str.lower() and str.strip() on these texts.
lower(u) == IF u = "Bob" THEN "bob" ELSE u
strip(u) == IF u = "  " THEN "" ELSE u

ASSISTANTS_FILE == "assistants.json"

\* app.py get_assistants_file: `if username and username.strip()`.
get_assistants_file(u) ==
    IF Truthy(u) /\ Truthy(strip(u)) THEN lower(u) \o "_assistants.json" ELSE ASSISTANTS_FILE

\* The first line of load_assistants / save_assistants in chat.py,
\* assistants.py, create_assistant.py and home.py: `... if username else ...`.
page_assistants_file(u) ==
    IF Truthy(u) THEN lower(u) \o "_assistants.json" ELSE "assistants.json"

Pages == {"app", "pages"}

\* The file a run of page pg reads and writes for the session's username.
file_of(pg, u) == IF pg = "app" THEN get_assistants_file(u) ELSE page_assistants_file(u)

FileNames == {file_of(pg, u) : pg \in Pages, u \in Usernames}

NoOp == [kind |-> "none", session |-> 0, id |-> 0]

\* The file opened with "w": the line replaces the log.
log_write_trunc(ok, action) == IF ok THEN <<action>> ELSE usage_log

\* A write to usage.log: the line is appended, or the write fails and the
\* failure is swallowed.
log_write(ok, action) == IF ok THEN Append(usage_log, action) ELSE usage_log

\* No assistants file, no usage.log, no session has run a page.
StoreIdle ==
    /\ store = [f \in FileNames |-> <<>>]
    /\ usage_log = <<>>
    /\ username = [s \in Sessions |-> None]
    /\ page = [s \in Sessions |-> "pages"]
    /\ mem = [s \in Sessions |-> <<>>]
    /\ spc = [s \in Sessions |-> "idle"]
    /\ op = NoOp

OpsIdle ==
    /\ pull_phase = "Idle" /\ pull_out = <<>> /\ pull_rcvd = <<>>
    /\ del_answer = "none" /\ deleted = None

Init == Fresh /\ DirIdle /\ ChatIdle /\ StoreIdle /\ OpsIdle

\* The adapter's handlers applied to an exception raised inside its try block.
Except(exc) ==
    IF outer_catches(invoked, exc)
    THEN /\ out' = Append(out, ErrFrag(outer_message(invoked, exc), 0))
         /\ phase' = "Failed"
         /\ raised' = raised
    ELSE /\ out' = out
         /\ phase' = "Failed"
         /\ raised' = TRUE

\* generate_response, first pull: the backend is unknown.
UnknownBackend ==
    /\ phase = "Idle"
    /\ backend \notin Adapters
    /\ out' = Append(out, ErrFrag(unknown_backend_message, 0))
    /\ phase' = "Failed"
    /\ UNCHANGED <<dirvars, chatvars, storevars, opsvars, args, invoked, netio, api_messages, system_content, status_code, rcvd, raised>>

\* generate_response, first pull: a cloud backend without a usable key.
MissingKey ==
    /\ phase = "Idle"
    /\ backend \in CloudBackends
    /\ ~Truthy(api_key)
    /\ out' = Append(out, ErrFrag(missing_key_message(backend), 0))
    /\ phase' = "Failed"
    /\ UNCHANGED <<dirvars, chatvars, storevars, opsvars, args, invoked, netio, api_messages, system_content, status_code, rcvd, raised>>

\* generate_response, first pull: `yield from` the backend's adapter.
Dispatch ==
    /\ phase = "Idle"
    /\ backend \in Adapters
    /\ backend \in CloudBackends => Truthy(api_key)
    /\ invoked' = backend
    /\ phase' = "Connecting"
    /\ UNCHANGED <<dirvars, chatvars, storevars, opsvars, args, out, netio, api_messages, system_content, status_code, rcvd, raised>>

\* The request is sent and the backend answers with a status (the HTTP
\* adapters) or opens the stream (the SDK adapters, always "200").
Connect(code) ==
    /\ phase = "Connecting"
    /\ invoked \notin HttpAdapters => code = 200
    /\ api_messages' = adapter_messages(invoked, messages, system_prompt)
    /\ system_content' = adapter_system(invoked, system_prompt)
    /\ netio' = TRUE
    /\ status_code' = code
    /\ phase' = status_phase(code)
    /\ out' = IF code # 200 THEN Append(out, status_fragment(invoked, code)) ELSE out
    /\ UNCHANGED <<dirvars, chatvars, storevars, opsvars, args, invoked, rcvd, raised>>

\* The request fails before any response: timeout, refused connection,
\* missing SDK, SDK error.
ConnectRaise(exc) ==
    /\ phase = "Connecting"
    /\ exc \in ConnectExcs(invoked)
    /\ netio' = (exc # "ImportError")
    /\ api_messages' = IF exc = "ImportError" THEN api_messages
                       ELSE adapter_messages(invoked, messages, system_prompt)
    /\ system_content' = IF exc = "ImportError" THEN system_content
                         ELSE adapter_system(invoked, system_prompt)
    /\ Except(exc)
    /\ UNCHANGED <<dirvars, chatvars, storevars, opsvars, args, invoked, status_code, rcvd>>

\* One iteration of the line / chunk loop.
ReadLine(l) ==
    /\ phase = "Streaming"
    /\ Len(rcvd) < MaxLines
    /\ l \in Lines(invoked)
    /\ rcvd' = Append(rcvd, l)
    /\ LET r == adapter_line(invoked, l)
       IN  CASE r.act = "yield" ->
                    /\ out' = Append(out, TextFrag(r.t, r.s))
                    /\ UNCHANGED <<phase, raised>>
             [] r.act = "skip" -> UNCHANGED <<out, phase, raised>>
             [] OTHER -> Except(r.exc)
    /\ UNCHANGED <<dirvars, chatvars, storevars, opsvars, args, invoked, netio, api_messages, system_content, status_code>>

\* The body ends: the loop and the generator finish.
ReadEnd ==
    /\ phase = "Streaming"
    /\ phase' = "Completed"
    /\ UNCHANGED <<dirvars, chatvars, storevars, opsvars, args, out, invoked, netio, api_messages, system_content, status_code, rcvd, raised>>

\* The transport breaks while the body is read.
ReadRaise(exc) ==
    /\ phase = "Streaming"
    /\ exc \in ReadExcs(invoked)
    /\ Except(exc)
    /\ UNCHANGED <<dirvars, chatvars, storevars, opsvars, args, invoked, netio, api_messages, system_content, status_code, rcvd>>

\* The caller retries: it calls generate_response again with the same
\* arguments, which creates a new generator.
Construct ==
    /\ phase \in Terminal
    /\ UNCHANGED <<dirvars, chatvars, storevars, opsvars, args>>
    /\ phase' = "Idle"
    /\ out' = <<>>
    /\ invoked' = "none"
    /\ netio' = FALSE
    /\ api_messages' = <<>>
    /\ system_content' = None
    /\ status_code' = 0
    /\ rcvd' = <<>>
    /\ raised' = FALSE

Next ==
    \/ UnknownBackend
    \/ MissingKey
    \/ Dispatch
    \/ \E code \in StatusCodes : Connect(code)
    \/ \E exc \in {"Timeout", "ConnectionError", "ImportError", "APIError"} : ConnectRaise(exc)
    \/ \E l \in OllamaLines \cup GrokLines \cup ChatgptChunks \cup ClaudeDeltas : ReadLine(l)
    \/ ReadEnd
    \/ \E exc \in {"ChunkedEncodingError", "ConnectionError", "APIError"} : ReadRaise(exc)
    \/ Construct

Spec == Init /\ [][Next]_vars

TypeOK ==
    /\ phase \in {"Idle", "Connecting", "Streaming", "Completed", "Failed"}
    /\ invoked \in Adapters \cup {"none"}
    /\ Len(rcvd) <= MaxLines

\* ------------------------------------------------------ helpers of claims
Last(q) == q[Len(q)]
IsAppend(q, r) == Len(r) = Len(q) + 1 /\ SubSeq(r, 1, Len(q)) = q

RECURSIVE Join(_)
Join(q) == IF q = <<>> THEN "" ELSE Head(q) \o Join(Tail(q))

\* The values of the content fragments of a fragment sequence, in order.
Texts(q) == LET t == SelectSeq(q, LAMBDA f : f.kind = "text")
            IN  [i \in 1..Len(t) |-> t[i].s]
Contents(ls) == [i \in 1..Len(ls) |-> ls[i].cs]

\* A local-backend line that is a JSON object carrying message.content text.
OValid(l) ==
    /\ l.enc = "utf8" /\ ~l.prefix /\ l.top = "obj" /\ l.message = "obj" /\ l.ct = "str"
\* A non-empty line that is not JSON: bytes or text that json.loads rejects.
ONotJson(l) == l.enc = "badutf8" \/ (l.enc = "utf8" /\ (l.prefix \/ l.top = "notjson"))

\* C1: generate_response for claude / chatgpt / grok with an api_key that is
\* None or empty yields exactly one fragment, the missing-key message, and
\* terminates; no adapter is invoked and nothing is put on the network.
Thm_C1 ==
    (backend \in {"claude", "chatgpt", "grok"} /\ api_key \in {None, ""} /\ phase # "Idle")
        => /\ phase = "Failed"
           /\ out = <<ErrFrag(missing_key_message(backend), 0)>>
           /\ invoked = "none"
           /\ netio = FALSE
           /\ ~raised

Wit_C1 ==
    /\ backend = "chatgpt" /\ api_key = "" /\ phase = "Failed"
    /\ Len(out) = 1 /\ out[1].s = "Error: ChatGPT API key not provided."

\* C2: failures are delivered in-band.  No exception leaves the generator; an
\* error fragment is always the last fragment of a stream that has ended as
\* Failed; and the step that fails after k fragments keeps those k fragments
\* and adds exactly one error fragment.
Thm_C2 ==
    /\ [](/\ ~raised
          /\ \A i \in 1..Len(out) :
                 out[i].kind = "error" => (i = Len(out) /\ phase = "Failed"))
    /\ [][(phase # "Failed" /\ phase' = "Failed")
              => (IsAppend(out, out') /\ Last(out').kind = "error")]_vars

Wit_C2 ==
    /\ phase = "Failed" /\ ~raised /\ Len(out) = 3
    /\ out[1].kind = "text" /\ out[2].kind = "text" /\ out[3].kind = "error"

\* C3 (as claimed): in the local and Grok adapters a received line that is bad
\* JSON or has an unexpected shape produces no fragment and does not end the
\* stream.
Malformed(a, l) ==
    /\ l.enc # "empty"
    /\ a = "grok" => l.prefix
    /\ \/ l.enc = "badutf8"
       \/ a = "ollama" /\ l.prefix
       \/ l.top # "obj"
       \/ a = "ollama" /\ l.message \notin {"absent", "obj"}
       \/ a = "grok" /\ l.choices \notin {"absent", "empty", "list"}
       \/ a = "grok" /\ l.choices = "list" /\ l.first # "obj"
       \/ a = "grok" /\ l.choices = "list" /\ l.delta \notin {"absent", "obj"}

Claim_C3 ==
    [][(invoked \in {"ollama", "grok"} /\ IsAppend(rcvd, rcvd') /\ Malformed(invoked, Last(rcvd')))
          => (out' = out /\ phase' = "Streaming")]_vars

\* C4 (as claimed): in the local adapter a line that is not JSON is skipped
\* and the stream goes on, and a valid line yields its content, so that the
\* fragments are the content values of the valid lines in arrival order.
Claim_C4 ==
    [][(invoked = "ollama" /\ IsAppend(rcvd, rcvd'))
          => /\ ONotJson(Last(rcvd')) => (out' = out /\ phase' = "Streaming")
             /\ OValid(Last(rcvd'))
                   => (out' = Append(out, TextFrag("str", Last(rcvd').cs))
                       /\ phase' = "Streaming")]_vars

\* C5: for the local backend, a 200-status stream of JSON objects that each
\* carry message.content yields one fragment per object in arrival order, and
\* the concatenation of the fragments is the concatenation of the contents
\* (chunks "a" then "b" give "a", "b" and "ab").
Thm_C5 ==
    (invoked = "ollama" /\ status_code = 200 /\ \A i \in 1..Len(rcvd) : OValid(rcvd[i]))
        => /\ Texts(out) = Contents(rcvd)
           /\ Join(Texts(out)) = Join(Contents(rcvd))
           /\ phase # "Failed" => Len(out) = Len(rcvd)
           /\ rcvd = <<OContent("str", "a"), OContent("str", "b")>>
                 => Join(Texts(out)) = "ab"

Wit_C5 ==
    /\ invoked = "ollama" /\ phase = "Completed"
    /\ rcvd = <<OContent("str", "a"), OContent("str", "b")>>
    /\ out = <<TextFrag("str", "a"), TextFrag("str", "b")>>

\* C6: a non-200 status from the local chat adapter or the Grok adapter yields
\* exactly one fragment, which contains the status code, and the stream ends
\* as Failed without reading a body line or yielding content.
Thm_C6 ==
    (invoked \in {"ollama", "grok"} /\ status_code \notin {0, 200})
        => /\ phase = "Failed"
           /\ Len(out) = 1
           /\ out[1].kind = "error"
           /\ out[1].code = status_code
           /\ rcvd = <<>>

Wit_C6 ==
    /\ invoked = "grok" /\ status_code = 500 /\ phase = "Failed"
    /\ out = <<ErrFrag("Error: xAI API returned status ", 500)>>

\* C7: a stream moves only forward along Idle, Connecting, Streaming and then
\* Completed or Failed; content is yielded only while Streaming, the only
\* other fragment is the single failure fragment; from Completed or Failed
\* nothing more is produced, the only way on is a newly constructed stream.
Forward ==
    { <<"Idle", "Connecting">>, <<"Connecting", "Streaming">>,
      <<"Streaming", "Streaming">>, <<"Streaming", "Completed">>,
      <<"Idle", "Failed">>, <<"Connecting", "Failed">>, <<"Streaming", "Failed">> }

Thm_C7 ==
    [][/\ phase \in Terminal
            => (phase' = "Idle" /\ out' = <<>> /\ rcvd' = <<>> /\ invoked' = "none")
       /\ phase \notin Terminal
            => /\ <<phase, phase'>> \in Forward
               /\ \/ out' = out
                  \/ /\ phase = "Streaming" /\ phase' = "Streaming"
                     /\ IsAppend(out, out') /\ Last(out').kind = "text"
                  \/ /\ phase' = "Failed"
                     /\ IsAppend(out, out') /\ Last(out').kind = "error"]_vars

Wit_C7 ==
    /\ phase = "Completed" /\ invoked = "claude" /\ Len(out) = 2 /\ Len(rcvd) = 2

\* C8 (as claimed): every fragment an adapter yields is a non-empty text
\* value.
Claim_C8 ==
    \A i \in 1..Len(out) : out[i].t = "str" /\ out[i].s # ""

\* C9 (as claimed): the message list sent to the backend has at most one
\* system turn, and it is first, for every adapter and every input.
SystemFirstOnly(msgs) == \A i \in 1..Len(msgs) : msgs[i].role = "system" => i = 1

Claim_C9 == netio => SystemFirstOnly(api_messages)

\* C9 (amended): the lists sent by the Claude, ChatGPT and Grok adapters have
\* at most one system turn, placed first, for every input; the local adapter
\* passes input system turns through, so its list has the property exactly
\* when the input list has it.
Thm_C9 ==
    netio => /\ invoked # "ollama" => SystemFirstOnly(api_messages)
             /\ invoked = "ollama"
                   => (SystemFirstOnly(api_messages) <=> SystemFirstOnly(messages))

Wit_C9 ==
    /\ netio /\ invoked = "grok" /\ system_prompt = "Be brief."
    /\ Len(messages) = 2 /\ messages[2].role = "system"
    /\ Len(api_messages) = 2 /\ api_messages[1].role = "system"

\* C10: the local adapter sends one new system turn with the prompt followed
\* by the input turns unchanged when the prompt is non-empty and the input has
\* no system turn, and sends the input itself when the prompt is empty or
\* absent.
Thm_C10 ==
    (invoked = "ollama" /\ netio)
        => /\ (system_prompt \notin {None, ""} /\ ~HasSystem(messages))
                 => api_messages =
                        <<[role |-> "system", content |-> system_prompt]>> \o messages
           /\ system_prompt \in {None, ""} => api_messages = messages

Wit_C10 ==
    /\ invoked = "ollama" /\ netio /\ system_prompt = "Be brief."
    /\ Len(messages) = 2 /\ messages[1].role = "user" /\ messages[2].role = "assistant"
    /\ Len(api_messages) = 3

\* C11: first writer wins.  When the input turns already hold a system turn,
\* the local adapter sends the list untouched and the system_prompt argument
\* is ignored: no turn of the outgoing list is a system turn made from it.
Thm_C11 ==
    (invoked = "ollama" /\ netio /\ HasSystem(messages))
        => /\ api_messages = messages
           /\ \A i \in 1..Len(api_messages) :
                  api_messages[i] # [role |-> "system", content |-> system_prompt]

Wit_C11 ==
    /\ invoked = "ollama" /\ netio /\ system_prompt = "Be brief."
    /\ Len(messages) = 2 /\ messages[1].role = "system" /\ messages[2].role = "user"
    /\ api_messages = messages

\* C12: normalizing is idempotent.  The list the local adapter sends is left
\* as it is by a second normalization with the same system prompt.
Thm_C12 ==
    (invoked = "ollama" /\ netio)
        => ollama_messages(api_messages, system_prompt) = api_messages

Wit_C12 ==
    /\ invoked = "ollama" /\ netio /\ system_prompt = "Be brief."
    /\ Len(messages) = 1 /\ messages[1].role = "assistant"
    /\ Len(api_messages) = 2 /\ api_messages[1].role = "system"

\* C13 (as claimed): exactly two of the four adapters take the system turns out
\* of the list and send the prompt in a request field of its own, and the
\* other two keep the system instruction as an inline turn.
FieldAdapters ==
    {a \in {"ollama", "claude", "chatgpt", "grok"} :
        \A sp \in SystemPrompts : adapter_system(a, sp) # None}

Claim_C13 ==
    /\ Cardinality(FieldAdapters) = 2
    /\ netio => (system_content # None <=> invoked \in FieldAdapters)

\* C13 (amended): exactly one adapter, Claude, takes the system turns out and
\* sends the prompt in a request field of its own; ChatGPT and Grok also take
\* the input's system turns out but resend the prompt as one inline system
\* turn placed first; the local adapter keeps the input's system turns inline.
Thm_C13 ==
    /\ FieldAdapters = {"claude"}
    /\ netio =>
         /\ system_content # None <=> invoked = "claude"
         /\ invoked = "claude"
               => /\ api_messages = NonSystem(messages)
                  /\ system_content = IF system_prompt \in {None, ""}
                                      THEN "You are a helpful assistant."
                                      ELSE system_prompt
         /\ invoked \in {"chatgpt", "grok"}
               => api_messages =
                      (IF system_prompt \in {None, ""} THEN <<>>
                       ELSE <<[role |-> "system", content |-> system_prompt]>>)
                      \o NonSystem(messages)
         /\ invoked = "ollama"
               => /\ SelectSeq(api_messages, LAMBDA m : m.role # "system")
                         = NonSystem(messages)
                  /\ HasSystem(messages) => HasSystem(api_messages)

Wit_C13 ==
    /\ netio /\ invoked = "claude" /\ system_prompt = "Be brief."
    /\ Len(messages) = 2 /\ messages[1].role = "system" /\ messages[2].role = "user"
    /\ system_content = "Be brief." /\ Len(api_messages) = 1

\* C18: generate_response with a backend that is none of the four keys yields
\* exactly one fragment, the sentence listing the valid keys, and terminates
\* without entering an adapter, whatever the other arguments are.
Thm_C18 ==
    (backend \notin {"ollama", "claude", "chatgpt", "grok"} /\ phase # "Idle")
        => /\ phase = "Failed"
           /\ Len(out) = 1
           /\ out[1].kind = "error"
           /\ out[1].s = "Error: Unknown backend. Use 'ollama', 'claude', 'chatgpt', or 'grok'."
           /\ invoked = "none"
           /\ netio = FALSE
           /\ rcvd = <<>>

Wit_C18 ==
    /\ backend = "gemini" /\ phase = "Failed" /\ Len(out) = 1
    /\ api_key = "sk-1" /\ system_prompt = "Be brief." /\ Len(messages) = 2

\* The other parts of the program at rest.
StreamIdle ==
    /\ messages = <<>> /\ backend = "ollama" /\ system_prompt = None /\ api_key = None
    /\ phase = "Idle" /\ out = <<>> /\ invoked = "none" /\ netio = FALSE
    /\ api_messages = <<>> /\ system_content = None /\ status_code = 0
    /\ rcvd = <<>> /\ raised = FALSE

\* ------------------------------------------------------- the chat page
\* The assistants the selector offers: created ones carry a stripped prompt
\* and a knowledge base that is "" or text, imported ones may lack the
\* knowledge_base key or carry an empty prompt.
Assistants ==
    [name : {"Helper"}, system_prompt : {"Be brief."}, knowledge_base : {None, "", "KB"}]
    \cup {[name |-> "Helper", system_prompt |-> "", knowledge_base |-> "KB"]}

\* The knowledge base left out of the prompt.
page_system_prompt_nokb(a) ==
    IF a = NoAssistant THEN None ELSE a.system_prompt

\* The system prompt the page builds: None without an assistant, else the
\* assistant's prompt, with the knowledge base appended after the separator
\* when the assistant has one.
page_system_prompt(a) ==
    IF a = NoAssistant THEN None
    ELSE IF Truthy(a.knowledge_base)
         THEN a.system_prompt \o "\n\n**Knowledge Base Context:**\n" \o a.knowledge_base
         ELSE a.system_prompt

\* Only the user's turns passed on.
page_messages_useronly(h) ==
    LET kept == SelectSeq(h, LAMBDA m : m.role = "user")
    IN  [i \in 1..Len(kept) |-> [role |-> kept[i].role, content |-> kept[i].content]]

\* The turn list the page passes: a new dict of role and content for every
\* user and assistant turn of the history, in history order.
page_messages(h) ==
    LET kept == SelectSeq(h, LAMBDA m : m.role \in {"user", "assistant"})
    IN  [i \in 1..Len(kept) |-> [role |-> kept[i].role, content |-> kept[i].content]]

\* The key the page passes: none for the local backend, the session's key
\* for a cloud backend (its label is offered only while that key is set).
page_api_key(b) == IF b = "ollama" THEN None ELSE "sk-1"

\* What iterating generate_response can give the page: no fragment, text,
\* text and a closing error sentence, and the None that the local and the
\* Grok adapter yield for a null content.
Replies ==
    { <<>>,
      <<TextFrag("str", "Hel"), TextFrag("str", "lo")>>,
      <<TextFrag("str", "Hel"), ErrFrag("Error: Read timed out", 0)>>,
      <<TextFrag("null", "")>>,
      <<TextFrag("str", "Hel"), TextFrag("null", ""), ErrFrag("Error: Read timed out", 0)>> }

\* full_response += chunk fails on a chunk that is not a string.
AllStr(r) == \A i \in 1..Len(r) : r[i].t = "str"

RECURSIVE full_response(_)
full_response(r) == IF r = <<>> THEN "" ELSE Head(r).s \o full_response(Tail(r))

\* The sidebar's assistant selector.
SelectAssistant(a) ==
    /\ current_assistant' = a
    /\ pc' = "idle"
    /\ UNCHANGED <<chat_history, streamvars, dirvars, storevars, opsvars>>

\* The turn written over the last one.
record_turn_over(h, role, content) ==
    IF h = <<>> THEN <<[role |-> role, content |-> content]>>
    ELSE [h EXCEPT ![Len(h)] = [role |-> role, content |-> content]]

\* st.session_state.chat_history.append({"role": ..., "content": ...})
record_turn(h, role, content) == Append(h, [role |-> role, content |-> content])

\* The test left at "the history is not empty".
generation_due_nonempty(h) == h # <<>>

\* if chat_history and chat_history[-1]["role"] == "user"
generation_due(h) == h # <<>> /\ h[Len(h)].role = "user"

\* st.chat_input gave text: the user's turn is appended and the script reruns.
UserInput(text) ==
    /\ Len(chat_history) < MaxHistory
    /\ chat_history' = record_turn(chat_history, "user", text)
    /\ pc' = "rerun"
    /\ UNCHANGED <<current_assistant, streamvars, dirvars, storevars, opsvars>>

\* The generation block of a run whose history ends with a user turn, for the
\* backend key b of the sidebar and the fragments r that generate_response
\* gives.  The call's arguments and the adapter's request are kept in the
\* streaming variables.  After the assistant's turn is appended the action is
\* logged (ok: the write to usage.log works).
Generate(b, r, ok) ==
    /\ generation_due(chat_history)
    /\ ok => Len(usage_log) < MaxLog
    /\ messages' = page_messages(chat_history)
    /\ system_prompt' = page_system_prompt(current_assistant)
    /\ backend' = b
    /\ api_key' = page_api_key(b)
    /\ invoked' = b
    /\ netio' = TRUE
    /\ api_messages' = adapter_messages(b, messages', system_prompt')
    /\ system_content' = adapter_system(b, system_prompt')
    /\ IF AllStr(r)
       THEN /\ out' = r
            /\ phase' = IF r # <<>> /\ r[Len(r)].kind = "error" THEN "Failed" ELSE "Completed"
            /\ chat_history' = record_turn(chat_history, "assistant", full_response(r))
            /\ usage_log' = log_write(ok, "chat_message")
            /\ pc' = "answered"
       ELSE \* TypeError in the loop, caught by the page's except Exception
            /\ out' = r
            /\ phase' = "Failed"
            /\ chat_history' = chat_history
            /\ usage_log' = usage_log
            /\ pc' = "error"
    /\ UNCHANGED <<status_code, rcvd, raised, current_assistant, dirvars, opsvars,
                   store, username, page, mem, spc, op>>

\* The Clear and New Chat buttons.
ClearHistory ==
    /\ chat_history' = <<>>
    /\ pc' = "idle"
    /\ UNCHANGED <<current_assistant, streamvars, dirvars, storevars, opsvars>>

ChatInit == StreamIdle /\ DirIdle /\ ChatIdle /\ StoreIdle /\ OpsIdle

ChatNext ==
    \/ \E a \in Assistants \cup {NoAssistant} : SelectAssistant(a)
    \/ UserInput("hi")
    \/ \E b \in Adapters, r \in Replies, ok \in BOOLEAN : Generate(b, r, ok)
    \/ ClearHistory

ChatSpec == ChatInit /\ [][ChatNext]_vars

\* ------------------------------------------------ the resolver's calls
\* One call of get_available_backends: the probe runs during the call.
GetAvailableBackends(ck, gk, ok, p) ==
    /\ prev_call' = [claude_key |-> claude_key, grok_key |-> grok_key,
                     openai_key |-> openai_key, probe |-> probe, backends |-> backends]
    /\ claude_key' = ck /\ grok_key' = gk /\ openai_key' = ok
    /\ probe' = p
    /\ backends' = get_available_backends(ck, gk, ok, check_ollama_connection(p, probe))
    /\ UNCHANGED <<label, backend_key, tags, model_names, streamvars, chatvars, storevars, opsvars>>

\* One call of backend_to_key.
BackendToKey(l) ==
    /\ label' = l
    /\ backend_key' = backend_to_key(l)
    /\ UNCHANGED <<claude_key, grok_key, openai_key, probe, backends, prev_call,
                   tags, model_names, streamvars, chatvars, storevars, opsvars>>

\* One call of list_ollama_models against the server's answer.
ListOllamaModels(t) ==
    /\ tags' = t
    /\ model_names' = list_ollama_models(t)
    /\ UNCHANGED <<claude_key, grok_key, openai_key, probe, backends, prev_call,
                   label, backend_key, streamvars, chatvars, storevars, opsvars>>

ResolverInit == StreamIdle /\ DirIdle /\ ChatIdle /\ StoreIdle /\ OpsIdle

ResolverNext ==
    \/ \E ck \in BOOLEAN, gk \in BOOLEAN, ok \in BOOLEAN, p \in ProbeOutcomes :
           GetAvailableBackends(ck, gk, ok, p)
    \/ \E l \in Labels : BackendToKey(l)

ResolverSpec == ResolverInit /\ [][ResolverNext]_vars

ModelsInit == StreamIdle /\ DirIdle /\ ChatIdle /\ StoreIdle /\ OpsIdle

ModelsNext == \E t \in TagsAnswers : ListOllamaModels(t)

ModelsSpec == ModelsInit /\ [][ModelsNext]_vars

Range(q) == {q[i] : i \in 1..Len(q)}
LabelOrder == <<"Ollama (Local)", "Claude (Anthropic)", "ChatGPT (OpenAI)", "Grok (xAI)">>
Pos(l) == CHOOSE i \in 1..4 : LabelOrder[i] = l

\* C15: get_available_backends never returns an empty list; with the three
\* flags false and the probe failing the result is the single local label, so
\* the local label can be in the result while the local backend is down.
Thm_C15 ==
    probe # "none"
        => /\ backends # <<>>
           /\ (~claude_key /\ ~grok_key /\ ~openai_key /\ probe # "200")
                 => backends = <<"Ollama (Local)">>

Wit_C15 ==
    /\ probe = "ConnectionError" /\ ~claude_key /\ ~grok_key /\ ~openai_key
    /\ backends = <<"Ollama (Local)">>

\* C16: in the result of every call, each cloud label is present iff its own
\* flag is true; the local label is present iff the probe of that same call
\* succeeded or no other label qualified; labels appear at most once, in the
\* order local, Claude, ChatGPT, Grok.  This holds of a call and of the call
\* before it, each with its own probe outcome: nothing is cached.
ResolvedRight(c) ==
    /\ "Claude (Anthropic)" \in Range(c.backends) <=> c.claude_key
    /\ "ChatGPT (OpenAI)" \in Range(c.backends) <=> c.openai_key
    /\ "Grok (xAI)" \in Range(c.backends) <=> c.grok_key
    /\ "Ollama (Local)" \in Range(c.backends)
          <=> (c.probe = "200" \/ (~c.claude_key /\ ~c.openai_key /\ ~c.grok_key))
    /\ Range(c.backends) \subseteq Range(LabelOrder)
    /\ \A i \in 1..Len(c.backends), j \in 1..Len(c.backends) :
           i < j => Pos(c.backends[i]) < Pos(c.backends[j])

Thm_C16 ==
    /\ probe # "none"
          => ResolvedRight([claude_key |-> claude_key, grok_key |-> grok_key,
                            openai_key |-> openai_key, probe |-> probe,
                            backends |-> backends])
    /\ prev_call.probe # "none" => ResolvedRight(prev_call)

Wit_C16 ==
    /\ prev_call.probe = "200" /\ prev_call.claude_key /\ prev_call.grok_key
    /\ prev_call.backends = <<"Ollama (Local)", "Claude (Anthropic)", "Grok (xAI)">>
    /\ probe = "Timeout" /\ claude_key /\ grok_key /\ ~openai_key
    /\ backends = <<"Claude (Anthropic)", "Grok (xAI)">>

\* C17: backend_to_key is total.  Every label, unrecognized text included,
\* maps to one of the four backend keys: the four known labels to their own
\* key, anything else to "ollama".
Thm_C17 ==
    label # None
        => /\ backend_key \in {"ollama", "claude", "chatgpt", "grok"}
           /\ label = "Ollama (Local)" => backend_key = "ollama"
           /\ label = "Claude (Anthropic)" => backend_key = "claude"
           /\ label = "ChatGPT (OpenAI)" => backend_key = "chatgpt"
           /\ label = "Grok (xAI)" => backend_key = "grok"
           /\ label \notin {"Ollama (Local)", "Claude (Anthropic)", "ChatGPT (OpenAI)",
                            "Grok (xAI)"} => backend_key = "ollama"

Wit_C17 == label = "Gemini (Google)" /\ backend_key = "ollama"

TagsFailure ==
    \/ tags.exc # "none"
    \/ tags.status # 200
    \/ tags.body # "object"
    \/ tags.models = None

\* What holds of list_ollama_models: the names come back in ascending order,
\* one per usable element of the array, and every failure gives the empty list.
ListedSorted ==
    tags # NoAnswer
        => /\ \A i \in 1..Len(model_names), j \in 1..Len(model_names) :
                  i < j => model_names[i] <= model_names[j]
           /\ TagsFailure => model_names = <<>>
           /\ ~TagsFailure =>
                  \A n \in ModelNames :
                      Cardinality({i \in 1..Len(model_names) : model_names[i] = n})
                        = Cardinality({i \in 1..Len(tags.models) :
                                           /\ tags.models[i].kind \in {"dict", "str"}
                                           /\ tags.models[i].name = n})

\* C20: list_ollama_models returns the names sorted and with no name twice,
\* whatever the models array holds, and the empty list on any failure.
Claim_C20 ==
    tags # NoAnswer
        => /\ \A i \in 1..Len(model_names), j \in 1..Len(model_names) :
                  i < j => model_names[i] < model_names[j]
           /\ TagsFailure => model_names = <<>>

\* C14: the turns are replayed verbatim.  For every adapter, input turn list
\* and prompt, the non-system turns of the outgoing request are the non-system
\* input turns, same roles and contents, same order; and the list the chat
\* page passes to generate_response is every user and assistant turn of the
\* history as it stood at the call, in history order.
Thm_C14 ==
    /\ chat_history = <<>>   \* the adapters' part depends on no variable
          => \A a \in Adapters, m \in TurnLists, sp \in SystemPrompts :
                 NonSystem(adapter_messages(a, m, sp)) = NonSystem(m)
    /\ pc = "answered"
          => /\ messages = SubSeq(chat_history, 1, Len(chat_history) - 1)
             /\ NonSystem(api_messages) = messages
    /\ pc = "error"
          => /\ messages = chat_history
             /\ NonSystem(api_messages) = messages

Wit_C14 ==
    /\ pc = "answered" /\ Len(chat_history) = 4 /\ invoked = "grok"
    /\ messages = <<[role |-> "user", content |-> "hi"],
                    [role |-> "assistant", content |-> "Hello"],
                    [role |-> "user", content |-> "hi"]>>
    /\ Len(api_messages) = 4 /\ api_messages[1].role = "system"
    /\ SubSeq(api_messages, 2, 4) = messages

\* C19: when the selected assistant has knowledge-base text, the prompt passed
\* to generate_response is the assistant's prompt, the separator and that
\* text, in this order; the turn list passed holds the history's user and
\* assistant turns and nothing else, and the text reaches the backend only
\* inside the system prompt.
Thm_C19 ==
    (pc \in {"answered", "error"} /\ current_assistant # NoAssistant
       /\ Truthy(current_assistant.knowledge_base))
        => /\ system_prompt = current_assistant.system_prompt
                                \o "\n\n**Knowledge Base Context:**\n"
                                \o current_assistant.knowledge_base
           /\ \A i \in 1..Len(messages) :
                  /\ messages[i].role \in {"user", "assistant"}
                  /\ i <= Len(chat_history) /\ messages[i] = chat_history[i]
           /\ Len(messages) >= Len(chat_history) - 1
           /\ \A i \in 1..Len(api_messages) :
                  api_messages[i].role = "system"
                      => api_messages[i].content = system_prompt
           /\ invoked = "claude" => system_content = system_prompt

Wit_C19 ==
    /\ pc = "answered" /\ invoked = "ollama"
    /\ current_assistant.knowledge_base = "KB"
    /\ system_prompt = "Be brief.\n\n**Knowledge Base Context:**\nKB"
    /\ messages = <<[role |-> "user", content |-> "hi"]>>
    /\ api_messages = <<[role |-> "system", content |-> system_prompt],
                        [role |-> "user", content |-> "hi"]>>

\* --------------------------------------- pull_ollama_model, delete_ollama_model
\* One line of the body of POST /api/pull.  enc: the bytes are empty, not
\* UTF-8, or text; top: what the text parses to; st, ss: type and text of the
\* value under "status" ("absent" when the key is missing).
PullLine(enc, top, st, ss) == [enc |-> enc, top |-> top, st |-> st, ss |-> ss]

PullLines ==
    { PullLine("empty", "none", "absent", ""),
      PullLine("badutf8", "none", "absent", ""),
      PullLine("utf8", "notjson", "absent", ""),
      PullLine("utf8", "num", "absent", ""),
      PullLine("utf8", "obj", "absent", ""),
      PullLine("utf8", "obj", "str", "pulling manifest"),
      PullLine("utf8", "obj", "str", "success") }

\* Body of the try block of the line loop: json.loads, then the status test.
pull_try(l) ==
    IF l.enc = "badutf8" THEN Raise("UnicodeDecodeError")
    ELSE IF l.top = "notjson" THEN Raise("JSONDecodeError")
    ELSE PyIn(l.top, IF l.st = "absent" THEN Skip ELSE Yield(l.st, l.ss))

\* except (json.JSONDecodeError, KeyError): continue
pull_inner_catches(exc) == IsInstance(exc, "JSONDecodeError") \/ IsInstance(exc, "KeyError")

\* One iteration of the line loop of pull_ollama_model (`if line:` first).
pull_line(l) ==
    IF l.enc = "empty" THEN Skip
    ELSE LET r == pull_try(l)
         IN  IF r.act = "raise" /\ pull_inner_catches(r.exc) THEN Skip ELSE r

\* Only the transport's exceptions handled by the outer clause.
pull_outer_catches_req(exc) == IsInstance(exc, "RequestException")

\* The outer clause of pull_ollama_model: except Exception.
pull_outer_catches(exc) == IsInstance(exc, "Exception")

\* The outer handler applied to an exception raised inside the try block.
PullExcept(exc) ==
    IF pull_outer_catches(exc)
    THEN /\ pull_out' = Append(pull_out, ErrFrag("Error: " \o exc, 0))
         /\ pull_phase' = "Failed"
    ELSE /\ pull_out' = pull_out
         /\ pull_phase' = "Raised"

\* The POST is answered with a status: a non-200 yields one sentence and
\* returns.
PullConnect(code) ==
    /\ pull_phase = "Idle"
    /\ pull_phase' = IF code # 200 THEN "Failed" ELSE "Streaming"
    /\ pull_out' = IF code # 200
                   THEN Append(pull_out, ErrFrag("Error: Could not pull model llama3", 0))
                   ELSE pull_out
    /\ UNCHANGED <<pull_rcvd, del_answer, deleted, streamvars, dirvars, chatvars, storevars>>

\* The POST fails before any response.
PullConnectRaise(exc) ==
    /\ pull_phase = "Idle"
    /\ PullExcept(exc)
    /\ UNCHANGED <<pull_rcvd, del_answer, deleted, streamvars, dirvars, chatvars, storevars>>

\* One iteration of the line loop.
PullReadLine(l) ==
    /\ pull_phase = "Streaming"
    /\ Len(pull_rcvd) < MaxLines
    /\ pull_rcvd' = Append(pull_rcvd, l)
    /\ LET r == pull_line(l)
       IN  CASE r.act = "yield" ->
                    /\ pull_out' = Append(pull_out, TextFrag(r.t, r.s))
                    /\ UNCHANGED pull_phase
             [] r.act = "skip" -> UNCHANGED <<pull_out, pull_phase>>
             [] OTHER -> PullExcept(r.exc)
    /\ UNCHANGED <<del_answer, deleted, streamvars, dirvars, chatvars, storevars>>

\* The body ends.
PullReadEnd ==
    /\ pull_phase = "Streaming"
    /\ pull_phase' = "Completed"
    /\ UNCHANGED <<pull_out, pull_rcvd, del_answer, deleted, streamvars, dirvars, chatvars,
                   storevars>>

\* The transport breaks while the body is read.
PullReadRaise(exc) ==
    /\ pull_phase = "Streaming"
    /\ PullExcept(exc)
    /\ UNCHANGED <<pull_rcvd, del_answer, deleted, streamvars, dirvars, chatvars, storevars>>

\* What DELETE /api/delete can meet: a status, or a transport failure.
DeleteAnswers == {"200", "404", "500", "Timeout", "ConnectionError"}

\* delete_ollama_model: status_code == 200, and False from `except Exception`;
\* the result is written as Python prints it, "raised" for an exception that
\* leaves the function.
delete_ollama_model(ans) ==
    IF ans \in {"200", "404", "500"} THEN (IF ans = "200" THEN "True" ELSE "False")
    ELSE IF IsInstance(ans, "Exception") THEN "False"
    ELSE "raised"

\* One call of delete_ollama_model.
DeleteModel(ans) ==
    /\ del_answer' = ans
    /\ deleted' = delete_ollama_model(ans)
    /\ UNCHANGED <<pull_phase, pull_out, pull_rcvd, streamvars, dirvars, chatvars, storevars>>

PullInit == StreamIdle /\ DirIdle /\ ChatIdle /\ StoreIdle /\ OpsIdle

PullNext ==
    \/ \E code \in StatusCodes : PullConnect(code)
    \/ \E exc \in {"Timeout", "ConnectionError"} : PullConnectRaise(exc)
    \/ \E l \in PullLines : PullReadLine(l)
    \/ PullReadEnd
    \/ \E exc \in {"ChunkedEncodingError", "ConnectionError"} : PullReadRaise(exc)
    \/ \E ans \in DeleteAnswers : DeleteModel(ans)

PullSpec == PullInit /\ [][PullNext]_vars

\* The status texts of the body lines that carry one, in order.
PullStatuses(ls) ==
    LET v == SelectSeq(ls, LAMBDA l : l.enc = "utf8" /\ l.top = "obj" /\ l.st # "absent")
    IN  [i \in 1..Len(v) |-> v[i].ss]

\* C21: the model-directory operations never raise.  delete_ollama_model
\* returns true iff the server answered 200 and false on any failure;
\* pull_ollama_model yields the status texts of the body in order, and on a
\* failure it ends after one error fragment, which is the last fragment.
Thm_C21 ==
    /\ pull_phase # "Raised"
    /\ del_answer # "none"
          => /\ deleted \in {"True", "False"}
             /\ deleted = "True" <=> del_answer = "200"
    /\ Texts(pull_out) = PullStatuses(pull_rcvd)
    /\ \A i \in 1..Len(pull_out) :
           pull_out[i].kind = "error" => (i = Len(pull_out) /\ pull_phase = "Failed")
    /\ pull_phase = "Failed" => (pull_out # <<>> /\ pull_out[Len(pull_out)].kind = "error")

Wit_C21 ==
    /\ pull_phase = "Failed" /\ Len(pull_rcvd) = 2
    /\ pull_rcvd[2].top = "num"
    /\ pull_out = <<TextFrag("str", "pulling manifest"), ErrFrag("Error: TypeError", 0)>>
    /\ del_answer = "Timeout" /\ deleted = "False"

\* ------------------------------------------------------ the assistant store
\* A stored assistant.  knowledge_base is the number of characters of the
\* text (0 for the empty text and for a record without the key).
Ids == 1..(MaxStore + 1)

\* The record the create form builds: `knowledge_base[:5000] if knowledge_base
\* else ""`.
new_assistant(id, name, status, kb) ==
    [id |-> id, name |-> name, status |-> status,
     knowledge_base |-> IF kb # 0 THEN (IF kb > 5000 THEN 5000 ELSE kb) ELSE 0]

\* An uploaded JSON file with the three required fields; id 0 and status None
\* stand for a missing key.
ImportFiles ==
    [id : {0, 1}, name : {"A"}, status : {None, "Draft"}, knowledge_base : {0, 6000}]

\* The record the import section appends: id and status are filled in when
\* missing, everything else is taken as uploaded.
imported_assistant(f, fresh) ==
    [id |-> IF f.id = 0 THEN fresh ELSE f.id,
     name |-> f.name,
     status |-> IF f.status = None THEN "Active" ELSE f.status,
     knowledge_base |-> f.knowledge_base]

IdsOf(list) == {list[i].id : i \in 1..Len(list)}
UsedIds == UNION ({IdsOf(store[f]) : f \in FileNames} \cup {IdsOf(mem[s]) : s \in Sessions})

\* str(uuid.uuid4()): an id no record has.
FreshId == CHOOSE i \in Ids : i \notin UsedIds /\ \A j \in Ids : j \notin UsedIds => i <= j

\* The file the run of session s reads and writes.
FileOf(s) == file_of(page[s], username[s])

\* A save that keeps what the file holds and adds the records it lacks.
save_assistants_merge(list, file) ==
    [store EXCEPT ![file] =
        store[file] \o SelectSeq(list, LAMBDA a : a.id \notin IdsOf(store[file]))]

\* save_assistants: open(file, "w") and json.dump of the whole list.
save_assistants(list, file) == [store EXCEPT ![file] = list]

\* The list comprehension dropping one position only.
without_at(list, i) ==
    [k \in 1..(Len(list) - 1) |-> IF k < i THEN list[k] ELSE list[k + 1]]

\* [a for a in assistants if a["id"] != assistant["id"]] for the card at i.
without(list, i) == SelectSeq(list, LAMBDA a : a.id # list[i].id)

\* The names the chat selector offers: those of the records that are not
\* drafts.
assistant_names(list) ==
    {list[i].name : i \in {k \in 1..Len(list) : list[k].status # "Draft"}}

\* for a in assistants: if a["name"] == selected_assistant_name: ...; break
find_assistant(list, name) ==
    list[CHOOSE i \in 1..Len(list) :
             list[i].name = name /\ \A j \in 1..(i - 1) : list[j].name # name]

\* The profile tab: a changed text is stored and logged.
SetUsername(s, u, ok) ==
    /\ u # None
    /\ u # (IF username[s] = None THEN "" ELSE username[s])
    /\ ok => Len(usage_log) < MaxLog
    /\ username' = [username EXCEPT ![s] = u]
    /\ usage_log' = log_write(ok, "profile_update")
    /\ spc' = [spc EXCEPT ![s] = "idle"]
    /\ UNCHANGED <<store, page, mem, op, streamvars, dirvars, chatvars, opsvars>>

\* A run of a page starts: assistants = load_assistants(username).
Load(s, pg) ==
    /\ page' = [page EXCEPT ![s] = pg]
    /\ mem' = [mem EXCEPT ![s] = store[file_of(pg, username[s])]]
    /\ spc' = [spc EXCEPT ![s] = "loaded"]
    /\ op' = [kind |-> "load", session |-> s, id |-> 0]
    /\ UNCHANGED <<store, usage_log, username, streamvars, dirvars, chatvars, opsvars>>

\* The create form is submitted: append, save_assistants, log.
Create(s, name, status, kb, ok) ==
    /\ spc[s] = "loaded"
    /\ Len(mem[s]) < MaxStore
    /\ Ids \ UsedIds # {}
    /\ ok => Len(usage_log) < MaxLog
    /\ LET list == Append(mem[s], new_assistant(FreshId, name, status, kb))
       IN  /\ mem' = [mem EXCEPT ![s] = list]
           /\ store' = save_assistants(list, FileOf(s))
    /\ usage_log' = log_write(ok, "assistant_created")
    /\ spc' = [spc EXCEPT ![s] = "idle"]
    /\ op' = [kind |-> "create", session |-> s, id |-> FreshId]
    /\ UNCHANGED <<username, page, streamvars, dirvars, chatvars, opsvars>>

\* Confirm Import: append, save_assistants.  The section is below the early
\* return of an empty list.
Import(s, f) ==
    /\ spc[s] = "loaded"
    /\ mem[s] # <<>>
    /\ Len(mem[s]) < MaxStore
    /\ Ids \ UsedIds # {}
    /\ LET rec == imported_assistant(f, FreshId)
           list == Append(mem[s], rec)
       IN  /\ mem' = [mem EXCEPT ![s] = list]
           /\ store' = save_assistants(list, FileOf(s))
           /\ op' = [kind |-> "import", session |-> s, id |-> rec.id]
    /\ spc' = [spc EXCEPT ![s] = "idle"]
    /\ UNCHANGED <<usage_log, username, page, streamvars, dirvars, chatvars, opsvars>>

\* The Delete button of the card at position i: filter, save_assistants.
Delete(s, i) ==
    /\ spc[s] = "loaded"
    /\ i \in 1..Len(mem[s])
    /\ LET list == without(mem[s], i)
       IN  /\ mem' = [mem EXCEPT ![s] = list]
           /\ store' = save_assistants(list, FileOf(s))
    /\ op' = [kind |-> "delete", session |-> s, id |-> mem[s][i].id]
    /\ spc' = [spc EXCEPT ![s] = "idle"]
    /\ UNCHANGED <<usage_log, username, page, streamvars, dirvars, chatvars, opsvars>>

\* The chat sidebar's selector over the loaded list: one of the offered names
\* is chosen and looked up.
ChatSelect(s, name) ==
    /\ spc[s] = "loaded"
    /\ name \in assistant_names(mem[s])
    /\ current_assistant' = find_assistant(mem[s], name)
    /\ op' = [kind |-> "select", session |-> s, id |-> current_assistant'.id]
    /\ UNCHANGED <<chat_history, pc, store, usage_log, username, page, mem, spc,
                   streamvars, dirvars, opsvars>>

\* log_usage from the other settings handlers (keys, theme, session).
LogUsage(action, ok) ==
    /\ ok => Len(usage_log) < MaxLog
    /\ usage_log' = log_write(ok, action)
    /\ UNCHANGED <<store, username, page, mem, spc, op, streamvars, dirvars, chatvars, opsvars>>

\* The Clear Logs button: os.remove(log_file).
ClearLogs ==
    /\ usage_log' = <<>>
    /\ UNCHANGED <<store, username, page, mem, spc, op, streamvars, dirvars, chatvars, opsvars>>

StoreInit == StreamIdle /\ DirIdle /\ ChatIdle /\ StoreIdle /\ OpsIdle

\* Two sessions of one user on the pages.
RaceNext ==
    \E s \in Sessions :
        \/ Load(s, "pages")
        \/ \E ok \in BOOLEAN : Create(s, "A", "Active", 0, ok)
        \/ \E i \in 1..MaxStore : Delete(s, i)

RaceSpec == StoreInit /\ [][RaceNext]_vars

\* One session creating, importing, deleting and selecting for chat.
StoreNext ==
    \/ \E pg \in Pages : Load(1, pg)
    \/ \E name \in {"A", "B"}, status \in {"Active", "Draft"}, kb \in {0, 6000} :
           Create(1, name, status, kb, FALSE)
    \/ \E f \in ImportFiles : Import(1, f)
    \/ \E i \in 1..MaxStore : Delete(1, i)
    \/ \E name \in {"A", "B"} : ChatSelect(1, name)

StoreSpec == StoreInit /\ [][StoreNext]_vars

\* One session changing its username, saving from either program, logging.
FilesNext ==
    \/ \E u \in Usernames, ok \in BOOLEAN : SetUsername(1, u, ok)
    \/ \E pg \in Pages : Load(1, pg)
    \/ \E ok \in BOOLEAN : Create(1, "A", "Active", 0, ok)
    \/ \E a \in {"api_key_update", "theme_change"}, ok \in BOOLEAN : LogUsage(a, ok)
    \/ ClearLogs

FilesSpec == StoreInit /\ [][FilesNext]_vars

\* C22: the store is rewritten wholesale with no locking.  Every save puts
\* the saving session's whole in-memory list in place of the file, whatever
\* the file held and whatever another session wrote since this one loaded; so
\* two sessions that both loaded, then both saved, leave only the second
\* writer's list, and the first writer's addition is gone.
Thm_C22 ==
    [][store' # store
         => \E s \in Sessions :
                /\ spc[s] = "loaded" /\ spc'[s] = "idle"
                /\ store' = [store EXCEPT ![FileOf(s)] = mem'[s]]
                /\ op'.session = s]_vars

Wit_C22 ==
    /\ op = [kind |-> "create", session |-> 2, id |-> 2]
    /\ Len(mem[1]) = 1 /\ mem[1][1].id = 1
    /\ Len(mem[2]) = 1 /\ mem[2][1].id = 2
    /\ store["assistants.json"] = mem[2]

\* C24: every record in the store has a knowledge base of at most 5000
\* characters.
Claim_C24 ==
    \A f \in FileNames : \A i \in 1..Len(store[f]) : store[f][i].knowledge_base <= 5000

\* C27: the assistant the chat selector resolves to is never a draft.
Claim_C27 == op.kind = "select" => current_assistant.status # "Draft"

\* C29: a delete removes exactly the one record of the clicked card and
\* leaves the others as they were, in order.
Claim_C29 ==
    [][(op'.kind = "delete" /\ store' # store)
         => \E i \in 1..Len(store[FileOf(1)]) :
                /\ store[FileOf(1)][i].id = op'.id
                /\ store'[FileOf(1)] = without_at(store[FileOf(1)], i)]_vars

\* C30: for the session's username, app.py and the pages choose the same
\* assistants file.
Claim_C30 == get_assistants_file(username[1]) = page_assistants_file(username[1])

\* C23 as stated: no step removes or changes a line of the usage log.
Claim_C23 == [][usage_log' = usage_log \/ IsAppend(usage_log, usage_log')]_vars

\* C23: every step leaves the usage log as it is or adds one line at its end,
\* except Clear Logs, which removes the whole log; no step changes or removes
\* single lines.
Thm_C23 ==
    [][\/ usage_log' = usage_log
       \/ IsAppend(usage_log, usage_log')
       \/ usage_log' = <<>>]_vars

Wit_C23 == usage_log = <<"profile_update", "assistant_created">>

\* C25: chat turns are only appended.  Every step appends one turn at the
\* end of chat_history, leaves it unchanged, or (Clear, New Chat) empties it;
\* no step edits, removes or reorders a recorded turn.
Thm_C25 ==
    [][\/ chat_history' = chat_history
       \/ IsAppend(chat_history, chat_history')
       \/ chat_history' = <<>>]_vars

Wit_C25 ==
    /\ Len(chat_history) = 4
    /\ chat_history[1].role = "user" /\ chat_history[2].role = "assistant"
    /\ chat_history[2].content = "Hello"
    /\ chat_history[3].role = "user" /\ chat_history[4].role = "assistant"
    /\ chat_history[4].content = "HelError: Read timed out"

Thm_C28 ==
    /\ \A i \in 1..Len(chat_history) :
           /\ chat_history[i].role \in {"user", "assistant"}
           /\ chat_history[i].role = "assistant"
                 => (i > 1 /\ chat_history[i - 1].role = "user")
    /\ pc \in {"answered", "error"}
          => (messages # <<>> /\ messages[Len(messages)].role = "user")

Wit_C28 ==
    /\ pc = "answered" /\ Len(chat_history) = 3
    /\ chat_history[1].role = "user" /\ chat_history[2].role = "user"
    /\ chat_history[3].role = "assistant"

====
